---- MODULE Spec2Model ----
(***************************************************************************)
(* A model of testSuite.h: the TestSuite extension of JUCE's UnitTest.     *)
(*                                                                         *)
(* Two state machines share the module.                                    *)
(*   SuiteSpec : one TestSuite object while its runTest() body calls       *)
(*               setup / tearDown / test / skipTest.                       *)
(*   Spec      : one call of the static TestSuite::runAllTests.            *)
(***************************************************************************)
EXTENDS Integers, Sequences, FiniteSets, TLC

(***************************************************************************)
(* Bounds of the model.                                                    *)
(***************************************************************************)
\* test(...) and skipTest(...) calls made by one runTest() body
MaxCalls == 2
\* setup(...) and tearDown(...) calls made directly by one runTest() body
MaxReplace == 1
\* words on a generated command line
MaxTokens == 2
\* suites registered with the runner
NumSuites == 2

VARIABLES
    \* ---- one TestSuite object -------------------------------------------
    suiteName,      \* UnitTest::getName()
    onSetup,        \* std::function called before each test
    onTearDown,     \* std::function called after each test
    pc,             \* where the runTest() body is: idle, inside test(), or unwound
    call,           \* the test()/skipTest() call in progress or last finished
    events,         \* what the suite has done so far, in order
    nCalls,         \* test()/skipTest() calls so far
    nReplace        \* direct setup()/tearDown() calls so far

suiteVars == <<suiteName, onSetup, onTearDown, pc, call, events, nCalls, nReplace>>

VARIABLES
    \* ---- one call of TestSuite::runAllTests ------------------------------
    RUN_UNIT_TESTS, \* the macro RUN_UNIT_TESTS of the build
    JUCE_DEBUG,     \* the macro JUCE_DEBUG of the build
    commandLine,    \* the argument, a sequence of characters
    rpc,            \* the statement runAllTests has reached
    commands,       \* local: the tokens of the command line
    continueRunning,\* local
    runTests,       \* local
    logPasses,      \* local
    assertOnFail,   \* local
    randomSeed,     \* local
    testRunner,     \* local: the juce::UnitTestRunner, once constructed
    returned        \* the value runAllTests returned

policyVars == <<RUN_UNIT_TESTS, JUCE_DEBUG, commandLine, rpc, commands,
                continueRunning, runTests, logPasses, assertOnFail, randomSeed,
                testRunner, returned>>

vars == <<suiteVars, policyVars>>

(***************************************************************************)
(* std::function<void(void)> values.                                       *)
(***************************************************************************)
\* the static default target, a lambda with an empty body
noOp == "noOp"
\* a std::function holding no target (std::function<void(void)>{} or nullptr)
Empty == "empty"
\* the callables a test class passes in; each is told apart by what it does
UserFns == {"g", "thrower", "setsSetup", "setsTearDown"}
\* everything the parameter type std::function<void(void)> accepts
Functions == {noOp, Empty} \cup UserFns

\* What a callable does when it is invoked: it returns, it throws, or it
\* calls setup()/tearDown() on the suite as its last statement and returns
\* (so it touches nothing of itself after its handle has been replaced).
Behaviour(f) ==
    CASE f = "thrower"      -> <<"throw">>
      [] f = "setsSetup"    -> <<"setup", "g">>
      [] f = "setsTearDown" -> <<"tearDown", "g">>
      [] OTHER              -> <<"return">>

SuiteNames == {"SuiteA"}
TestNames == {"t1", "t2"}

NoCall == [op |-> "none", name |-> "", fn |-> noOp, at |-> 0,
           setup0 |-> noOp, tearDown0 |-> noOp]

(***************************************************************************)
(* TestSuite: construction.                                                *)
(***************************************************************************)
SuiteInit ==
    /\ suiteName \in SuiteNames
    /\ onSetup = noOp
    /\ onTearDown = noOp
    /\ pc = "idle"
    /\ call = NoCall
    /\ events = <<>>
    /\ nCalls = 0
    /\ nReplace = 0

(***************************************************************************)
(* setup(setupFn) and tearDown(tearDownFn), called by the runTest() body.  *)
(***************************************************************************)
setup(setupFn) ==
    /\ pc = "idle"
    /\ nReplace < MaxReplace
    /\ onSetup' = setupFn
    /\ events' = Append(events, <<"setup", setupFn>>)
    /\ nReplace' = nReplace + 1
    /\ UNCHANGED <<suiteName, onTearDown, pc, call, nCalls>>

tearDown(tearDownFn) ==
    /\ pc = "idle"
    /\ nReplace < MaxReplace
    /\ onTearDown' = tearDownFn
    /\ events' = Append(events, <<"tearDown", tearDownFn>>)
    /\ nReplace' = nReplace + 1
    /\ UNCHANGED <<suiteName, onSetup, pc, call, nCalls>>

(***************************************************************************)
(* Invoking a std::function from inside test().  An empty one throws       *)
(* std::bad_function_call; otherwise the target runs, and may itself call  *)
(* setup()/tearDown() on the suite or throw.  An exception unwinds test()  *)
(* and the runTest() body.                                                 *)
(***************************************************************************)
Invoke(f, role, next) ==
    IF f = Empty
    THEN /\ events' = Append(events, <<"throw", "bad_function_call">>)
         /\ pc' = "unwound"
         /\ UNCHANGED <<onSetup, onTearDown>>
    ELSE LET b == Behaviour(f) IN
         /\ events' = events \o <<<<"invoke", role, f>>>> \o
                      (CASE b[1] = "setup"    -> <<<<"setup", b[2]>>>>
                         [] b[1] = "tearDown" -> <<<<"tearDown", b[2]>>>>
                         [] b[1] = "throw"    -> <<<<"throw", f>>>>
                         [] OTHER             -> <<>>)
         /\ onSetup' = IF b[1] = "setup" THEN b[2] ELSE onSetup
         /\ onTearDown' = IF b[1] = "tearDown" THEN b[2] ELSE onTearDown
         /\ pc' = IF b[1] = "throw" THEN "unwound" ELSE next

\* The handle each call site of test() reads: the member, at the moment of
\* the call.
SetupHandle == onSetup

\* variant: the handle as it was when test() was entered
TearDownSnapshot == call.tearDown0

TearDownHandle == onTearDown

(***************************************************************************)
(* test(testName, testFn), one step per statement.                         *)
(***************************************************************************)
testBegin(testName, testFn) ==
    /\ pc = "idle"
    /\ nCalls < MaxCalls
    /\ call' = [op |-> "test", name |-> testName, fn |-> testFn,
                at |-> Len(events),
                setup0 |-> onSetup, tearDown0 |-> onTearDown]
    /\ events' = Append(events, <<"beginTest", testName>>)
    /\ nCalls' = nCalls + 1
    /\ pc' = "onSetup"
    /\ UNCHANGED <<suiteName, onSetup, onTearDown, nReplace>>

testOnSetup ==
    /\ pc = "onSetup"
    /\ Invoke(SetupHandle, "onSetup", "testFn")
    /\ UNCHANGED <<suiteName, call, nCalls, nReplace>>

testFnCall ==
    /\ pc = "testFn"
    /\ Invoke(call.fn, "testFn", "onTearDown")
    /\ UNCHANGED <<suiteName, call, nCalls, nReplace>>

testOnTearDown ==
    /\ pc = "onTearDown"
    /\ Invoke(TearDownHandle, "onTearDown", "idle")
    /\ UNCHANGED <<suiteName, call, nCalls, nReplace>>

(***************************************************************************)
(* skipTest(testName, testFn).                                             *)
(***************************************************************************)
Separator == "-----------------------------------------------------------------"
\* TRANS("WARNING: Skipping ") + getName() + " / " + testName
Warning(testName) == <<"WARNING: Skipping ", suiteName, " / ", testName>>

\* variant: the separator line is not logged
SkipLinesNoSeparator(testName) == <<<<"logMessage", Warning(testName)>>>>

\* the two logMessage calls, in order
SkipLines(testName) ==
    <<<<"logMessage", Separator>>, <<"logMessage", Warning(testName)>>>>

skipTest(testName, testFn) ==
    /\ pc = "idle"
    /\ nCalls < MaxCalls
    /\ call' = [op |-> "skipTest", name |-> testName, fn |-> testFn,
                at |-> Len(events),
                setup0 |-> onSetup, tearDown0 |-> onTearDown]
    /\ events' = events \o SkipLines(testName)
    /\ nCalls' = nCalls + 1
    /\ UNCHANGED <<suiteName, onSetup, onTearDown, pc, nReplace>>


(***************************************************************************)
(* Strings.  A juce::String is a sequence of characters, each character a  *)
(* one-letter string.                                                      *)
(***************************************************************************)
QuitAfterTests == <<"-", "-", "q", "u", "i", "t", "A", "f", "t", "e", "r", "T", "e", "s", "t", "s">>
DisableTests == <<"-", "-", "d", "i", "s", "a", "b", "l", "e", "T", "e", "s", "t", "s">>
EnableTests == <<"-", "-", "e", "n", "a", "b", "l", "e", "T", "e", "s", "t", "s">>
AssertOnFail == <<"-", "-", "a", "s", "s", "e", "r", "t", "O", "n", "F", "a", "i", "l">>
ContinueOnFail == <<"-", "-", "c", "o", "n", "t", "i", "n", "u", "e", "O", "n", "F", "a", "i", "l">>
LogPasses == <<"-", "-", "l", "o", "g", "P", "a", "s", "s", "e", "s">>
RandomSeed == <<"-", "-", "r", "a", "n", "d", "o", "m", "T", "e", "s", "t", "S", "e", "e", "d">>

UpperCaseLetters == <<"A", "B", "C", "D", "E", "F", "G", "H", "I", "J", "K", "L", "M", "N", "O", "P", "Q", "R", "S", "T", "U", "V", "W", "X", "Y", "Z">>
LowerCaseLetters == <<"a", "b", "c", "d", "e", "f", "g", "h", "i", "j", "k", "l", "m", "n", "o", "p", "q", "r", "s", "t", "u", "v", "w", "x", "y", "z">>
DigitCharacters == <<"0", "1", "2", "3", "4", "5", "6", "7", "8", "9">>

\* CharacterFunctions::toUpperCase
LowerCaseSet == {LowerCaseLetters[i] : i \in DOMAIN LowerCaseLetters}
UpperCaseOf ==
    [c \in LowerCaseSet |->
        UpperCaseLetters[CHOOSE i \in DOMAIN LowerCaseLetters : LowerCaseLetters[i] = c]]
toUpperCase(c) == IF c \in LowerCaseSet THEN UpperCaseOf[c] ELSE c

\* String::toUpperCase
ToUpper(s) == [i \in DOMAIN s |-> toUpperCase(s[i])]

\* String::equalsIgnoreCase: the same length, and equal character by character
\* once both are upper-cased
equalsIgnoreCase(a, b) ==
    /\ Len(a) = Len(b)
    /\ \A i \in DOMAIN a : toUpperCase(a[i]) = toUpperCase(b[i])

(***************************************************************************)
(* StringArray::fromTokens(commandLine, true): the break characters are    *)
(* " \n\r\t", the quote character is the double quote; a break character   *)
(* inside quotes does not end a token, and the quotes stay in the token.   *)
(***************************************************************************)
BreakCharacters == {" ", "\n", "\r", "\t"}
QuoteCharacters == {"\""}
NoQuote == "none"

\* CharacterFunctions::findEndOfToken: the position of the break character
\* that ends the token starting at t, or one past the end of the text
RECURSIVE findEndOfToken(_, _, _)
findEndOfToken(text, t, currentQuoteChar) ==
    IF t > Len(text) THEN t
    ELSE LET c == text[t] IN
         IF currentQuoteChar = NoQuote /\ c \in BreakCharacters THEN t
         ELSE findEndOfToken(text, t + 1,
                 IF c \in QuoteCharacters
                 THEN (IF currentQuoteChar = NoQuote THEN c
                       ELSE IF currentQuoteChar = c THEN NoQuote
                       ELSE currentQuoteChar)
                 ELSE currentQuoteChar)

\* StringArray::addTokens: one token per break character, plus one
RECURSIVE addTokens(_, _)
addTokens(text, t) ==
    LET tokenEnd == findEndOfToken(text, t, NoQuote)
        token    == SubSeq(text, t, tokenEnd - 1)
    IN  IF tokenEnd > Len(text)
        THEN <<token>>
        ELSE <<token>> \o addTokens(text, tokenEnd + 1)

fromTokens(text) == IF text = <<>> THEN <<>> ELSE addTokens(text, 1)

(***************************************************************************)
(* StringArray::indexOf(stringToLookFor, ignoreCase): the 0-based index of *)
(* the first element equal to the string, or -1.                           *)
(***************************************************************************)
RECURSIVE indexOfFrom(_, _, _, _)
indexOfFrom(strings, stringToLookFor, ignoreCase, i) ==
    IF i >= Len(strings) THEN -1
    ELSE IF (IF ignoreCase
             THEN equalsIgnoreCase(strings[i + 1], stringToLookFor)
             ELSE strings[i + 1] = stringToLookFor)
         THEN i
         ELSE indexOfFrom(strings, stringToLookFor, ignoreCase, i + 1)

\* variant: the ignoreCase argument is not honoured
indexOfCaseSensitive(strings, stringToLookFor, ignoreCase) ==
    indexOfFrom(strings, stringToLookFor, FALSE, 0)

indexOf(strings, stringToLookFor, ignoreCase) ==
    indexOfFrom(strings, stringToLookFor, ignoreCase, 0)

\* StringArray::operator[]: an empty string when the index is out of bounds
ElementAt(strings, index) ==
    IF index >= 0 /\ index < Len(strings) THEN strings[index + 1] ELSE <<>>

(***************************************************************************)
(* String::getLargeIntValue: skips leading whitespace, reads an optional   *)
(* '-', then decimal digits up to the first character that is no digit.    *)
(***************************************************************************)
DigitSet == {DigitCharacters[i] : i \in DOMAIN DigitCharacters}
DigitValueOf ==
    [c \in DigitSet |->
        (CHOOSE i \in DOMAIN DigitCharacters : DigitCharacters[i] = c) - 1]
isDigit(c) == c \in DigitSet
digitValue(c) == DigitValueOf[c]

RECURSIVE findEndOfWhitespace(_, _)
findEndOfWhitespace(s, i) ==
    IF i <= Len(s) /\ s[i] \in BreakCharacters
    THEN findEndOfWhitespace(s, i + 1)
    ELSE i

RECURSIVE readDigits(_, _, _)
readDigits(s, i, v) ==
    IF i <= Len(s) /\ isDigit(s[i])
    THEN readDigits(s, i + 1, v * 10 + digitValue(s[i]))
    ELSE v

getLargeIntValue(s) ==
    LET start == findEndOfWhitespace(s, 1)
        isNeg == start <= Len(s) /\ s[start] = "-"
        v     == readDigits(s, IF isNeg THEN start + 1 ELSE start, 0)
    IN  IF isNeg THEN 0 - v ELSE v

(***************************************************************************)
(* runAllTests: what each local resolves to.                               *)
(***************************************************************************)
\* variant: the comparison is the wrong way round
continueRunningInverted(cmds) == -1 # indexOf(cmds, QuitAfterTests, TRUE)

continueRunningOf(cmds) == -1 = indexOf(cmds, QuitAfterTests, TRUE)

logPassesOf(cmds) == -1 # indexOf(cmds, LogPasses, TRUE)

\* variant: reads the flag's own token, not the one after it
randomSeedOffByOne(cmds) ==
    LET seedIndex == indexOf(cmds, RandomSeed, TRUE)
    IN  IF seedIndex > -1
        THEN getLargeIntValue(ElementAt(cmds, seedIndex))
        ELSE 0

randomSeedOf(cmds) ==
    LET seedIndex == indexOf(cmds, RandomSeed, TRUE)
    IN  IF seedIndex > -1
        THEN getLargeIntValue(ElementAt(cmds, seedIndex + 1))
        ELSE 0

\* variant: the two branches of #if JUCE_DEBUG are exchanged
runTestsBranchesSwapped(cmds, debug) ==
    IF debug # 0
    THEN -1 # indexOf(cmds, EnableTests, TRUE)
    ELSE -1 = indexOf(cmds, DisableTests, TRUE)

runTestsOf(cmds, debug) ==
    IF debug # 0
    THEN -1 = indexOf(cmds, DisableTests, TRUE)
    ELSE -1 # indexOf(cmds, EnableTests, TRUE)

assertOnFailOf(cmds, debug) ==
    IF debug # 0
    THEN -1 = indexOf(cmds, ContinueOnFail, TRUE)
    ELSE -1 # indexOf(cmds, AssertOnFail, TRUE)

\* variant: the #if RUN_UNIT_TESTS guard is missing
RunUnitTestsAlways == TRUE

\* #if RUN_UNIT_TESTS
RunUnitTestsEnabled == RUN_UNIT_TESTS # 0

(***************************************************************************)
(* juce::UnitTestRunner, as runAllTests uses it.                           *)
(***************************************************************************)
\* no runner has been constructed
NoRunner ==
    [assertOnFailure |-> FALSE, logPasses |-> FALSE, state |-> "none",
     runs |-> 0, seed |-> "none", suitesRun |-> 0]
Undeclared == "undeclared"
NotReturned == "not returned"

\* a new runner asserts on failure and does not log passes
NewUnitTestRunner ==
    [assertOnFailure |-> TRUE, logPasses |-> FALSE, state |-> "constructed",
     runs |-> 0, seed |-> "none", suitesRun |-> 0]

\* variant: the setting is dropped
setAssertOnFailureDropped(runner, shouldAssert) == runner

setAssertOnFailure(runner, shouldAssert) ==
    [runner EXCEPT !.assertOnFailure = shouldAssert]

setPassesAreLogged(runner, shouldDisplayPasses) ==
    [runner EXCEPT !.logPasses = shouldDisplayPasses]

(***************************************************************************)
(* The command lines the application may be started with.                  *)
(***************************************************************************)
Flags == {QuitAfterTests, DisableTests, EnableTests, AssertOnFail,
          ContinueOnFail, LogPasses, RandomSeed}

Words ==
    Flags
    \cup {ToUpper(QuitAfterTests), ToUpper(LogPasses), ToUpper(RandomSeed),
          ToUpper(DisableTests), ToUpper(EnableTests)}
    \cup {<<"4", "2">>, <<"7", "x">>, <<"x">>}

RECURSIVE Join(_)
Join(ws) ==
    IF ws = <<>> THEN <<>>
    ELSE IF Len(ws) = 1 THEN ws[1]
    ELSE ws[1] \o <<" ">> \o Join(Tail(ws))

GeneratedLines ==
    {Join(ws) : ws \in UNION {[1..n -> Words] : n \in 0..MaxTokens}}

ExtraLines ==
    { \* --logPasses --randomTestSeed 7 --quitAfterTests
      Join(<<LogPasses, RandomSeed, <<"7">>, QuitAfterTests>>),
      Join(<<RandomSeed, RandomSeed, <<"4", "2">>>>),
      Join(<<RandomSeed, <<"4", "2">>, RandomSeed>>),
      Join(<<RandomSeed, <<"-", "5">>>>),
      \* two blanks between the flag and its value
      Join(<<RandomSeed, <<>>, <<"4", "2">>>>),
      \* a trailing blank
      Join(<<QuitAfterTests, <<>>>>),
      \* a tab as the separator
      LogPasses \o <<"\t">> \o EnableTests,
      \* a quoted flag, and a quoted value with a blank in it
      <<"\"">> \o QuitAfterTests \o <<"\"">>,
      RandomSeed \o <<" ", "\"", "4", " ", "2", "\"">>,
      Join(<<EnableTests, ContinueOnFail, LogPasses, RandomSeed, <<"4", "2">>>>) }

CommandLines == GeneratedLines \cup ExtraLines

(***************************************************************************)
(* runAllTests(commandLine), one step per statement that an observer of    *)
(* the runner can tell apart.                                              *)
(***************************************************************************)
PolicyInit ==
    /\ RUN_UNIT_TESTS \in {0, 1}
    /\ JUCE_DEBUG \in {0, 1}
    /\ commandLine \in CommandLines
    /\ rpc = "entry"
    /\ commands = Undeclared
    /\ continueRunning = Undeclared
    /\ runTests = Undeclared
    /\ logPasses = Undeclared
    /\ assertOnFail = Undeclared
    /\ randomSeed = Undeclared
    /\ testRunner = NoRunner
    /\ returned = NotReturned

\* RUN_UNIT_TESTS is 0: only lines 168 and 203 are compiled
runAllTestsCompiledOut ==
    /\ rpc = "entry"
    /\ ~RunUnitTestsEnabled
    /\ continueRunning' = TRUE
    /\ returned' = TRUE
    /\ rpc' = "returned"
    /\ UNCHANGED <<RUN_UNIT_TESTS, JUCE_DEBUG, commandLine, commands, runTests,
                   logPasses, assertOnFail, randomSeed, testRunner>>

\* lines 168-193
resolvePolicy ==
    /\ rpc = "entry"
    /\ RunUnitTestsEnabled
    /\ LET cmds == fromTokens(commandLine) IN
       /\ commands' = cmds
       /\ continueRunning' = continueRunningOf(cmds)
       /\ logPasses' = logPassesOf(cmds)
       /\ randomSeed' = randomSeedOf(cmds)
       /\ runTests' = runTestsOf(cmds, JUCE_DEBUG)
       /\ assertOnFail' = assertOnFailOf(cmds, JUCE_DEBUG)
    /\ rpc' = "resolved"
    /\ UNCHANGED <<RUN_UNIT_TESTS, JUCE_DEBUG, commandLine, testRunner, returned>>

\* line 197
constructRunner ==
    /\ rpc = "resolved"
    /\ runTests = TRUE
    /\ testRunner' = NewUnitTestRunner
    /\ rpc' = "constructed"
    /\ UNCHANGED <<RUN_UNIT_TESTS, JUCE_DEBUG, commandLine, commands,
                   continueRunning, runTests, logPasses, assertOnFail,
                   randomSeed, returned>>

\* line 198
configureAssertOnFailure ==
    /\ rpc = "constructed"
    /\ testRunner' = setAssertOnFailure(testRunner, assertOnFail)
    /\ rpc' = "assertSet"
    /\ UNCHANGED <<RUN_UNIT_TESTS, JUCE_DEBUG, commandLine, commands,
                   continueRunning, runTests, logPasses, assertOnFail,
                   randomSeed, returned>>

\* line 199
configurePassesAreLogged ==
    /\ rpc = "assertSet"
    /\ testRunner' = setPassesAreLogged(testRunner, logPasses)
    /\ rpc' = "passesSet"
    /\ UNCHANGED <<RUN_UNIT_TESTS, JUCE_DEBUG, commandLine, commands,
                   continueRunning, runTests, logPasses, assertOnFail,
                   randomSeed, returned>>

\* line 200: testRunner.runAllTests(randomSeed) is entered ...
runnerRunAllTests ==
    /\ rpc = "passesSet"
    /\ testRunner' = [testRunner EXCEPT !.state = "running",
                                        !.runs = @ + 1,
                                        !.seed = randomSeed]
    /\ rpc' = "running"
    /\ UNCHANGED <<RUN_UNIT_TESTS, JUCE_DEBUG, commandLine, commands,
                   continueRunning, runTests, logPasses, assertOnFail,
                   randomSeed, returned>>

\* ... runs each registered suite ...
runnerRunsSuite ==
    /\ rpc = "running"
    /\ testRunner.suitesRun < NumSuites
    /\ testRunner' = [testRunner EXCEPT !.suitesRun = @ + 1]
    /\ UNCHANGED <<RUN_UNIT_TESTS, JUCE_DEBUG, commandLine, rpc, commands,
                   continueRunning, runTests, logPasses, assertOnFail,
                   randomSeed, returned>>

\* ... and comes back
runnerFinished ==
    /\ rpc = "running"
    /\ testRunner.suitesRun = NumSuites
    /\ testRunner' = [testRunner EXCEPT !.state = "finished"]
    /\ rpc' = "ran"
    /\ UNCHANGED <<RUN_UNIT_TESTS, JUCE_DEBUG, commandLine, commands,
                   continueRunning, runTests, logPasses, assertOnFail,
                   randomSeed, returned>>

\* line 203
returnContinueRunning ==
    /\ \/ rpc = "ran"
       \/ rpc = "resolved" /\ runTests = FALSE
    /\ returned' = continueRunning
    /\ rpc' = "returned"
    /\ UNCHANGED <<RUN_UNIT_TESTS, JUCE_DEBUG, commandLine, commands,
                   continueRunning, runTests, logPasses, assertOnFail,
                   randomSeed, testRunner>>

(***************************************************************************)
(* The two specifications.                                                 *)
(***************************************************************************)
\* the suite machine at rest, for the runAllTests specification
SuiteAtRest ==
    /\ suiteName = "SuiteA"
    /\ onSetup = noOp
    /\ onTearDown = noOp
    /\ pc = "idle"
    /\ call = NoCall
    /\ events = <<>>
    /\ nCalls = 0
    /\ nReplace = 0

\* the runAllTests machine at rest, for the suite specification
PolicyAtRest ==
    /\ RUN_UNIT_TESTS = 1
    /\ JUCE_DEBUG = 1
    /\ commandLine = <<>>
    /\ rpc = "running"
    /\ commands = <<>>
    /\ continueRunning = TRUE
    /\ runTests = TRUE
    /\ logPasses = FALSE
    /\ assertOnFail = TRUE
    /\ randomSeed = 0
    /\ testRunner = [NewUnitTestRunner EXCEPT !.state = "running", !.runs = 1,
                                              !.seed = 0]
    /\ returned = NotReturned

Init == PolicyInit /\ SuiteAtRest

Next ==
    \/ runAllTestsCompiledOut /\ UNCHANGED suiteVars
    \/ resolvePolicy /\ UNCHANGED suiteVars
    \/ constructRunner /\ UNCHANGED suiteVars
    \/ configureAssertOnFailure /\ UNCHANGED suiteVars
    \/ configurePassesAreLogged /\ UNCHANGED suiteVars
    \/ runnerRunAllTests /\ UNCHANGED suiteVars
    \/ runnerRunsSuite /\ UNCHANGED suiteVars
    \/ runnerFinished /\ UNCHANGED suiteVars
    \/ returnContinueRunning /\ UNCHANGED suiteVars

Spec == Init /\ [][Next]_vars

SuiteStart == SuiteInit /\ PolicyAtRest

SuiteNext ==
    \/ \E f \in Functions : setup(f) /\ UNCHANGED policyVars
    \/ \E f \in Functions : tearDown(f) /\ UNCHANGED policyVars
    \/ \E n \in TestNames, f \in Functions : testBegin(n, f) /\ UNCHANGED policyVars
    \/ testOnSetup /\ UNCHANGED policyVars
    \/ testFnCall /\ UNCHANGED policyVars
    \/ testOnTearDown /\ UNCHANGED policyVars
    \/ \E n \in TestNames, f \in Functions : skipTest(n, f) /\ UNCHANGED policyVars

SuiteSpec == SuiteStart /\ [][SuiteNext]_vars

(***************************************************************************)
(* Vocabulary of the properties of runAllTests.                            *)
(***************************************************************************)
Tokens == fromTokens(commandLine)

\* some token is the flag, letter for letter
HasTokenExactly(flag) == \E i \in DOMAIN Tokens : Tokens[i] = flag

\* some token is the flag up to the case of its letters
HasTokenIgnoringCase(flag) ==
    \E i \in DOMAIN Tokens : ToUpper(Tokens[i]) = ToUpper(flag)

\* the locals are resolved: line 193 has been passed
Resolved == RunUnitTestsEnabled /\ rpc # "entry"

ResolvedBooleans == <<continueRunning, logPasses, runTests, assertOnFail>>

BooleansOf(cmds) ==
    <<continueRunningOf(cmds), logPassesOf(cmds),
      runTestsOf(cmds, JUCE_DEBUG), assertOnFailOf(cmds, JUCE_DEBUG)>>

Permute(cmds, p) == [i \in DOMAIN cmds |-> cmds[p[i]]]

\* the token after the first token that satisfies Is, or the empty string
RECURSIVE TokenAfterFirst(_, _, _)
TokenAfterFirst(toks, Is(_), i) ==
    IF i > Len(toks) THEN <<>>
    ELSE IF Is(toks[i])
         THEN (IF i + 1 <= Len(toks) THEN toks[i + 1] ELSE <<>>)
         ELSE TokenAfterFirst(toks, Is, i + 1)

\* the value of a token made of an optional '-' and digits only, else 0
WholeIntegerValue(tok) ==
    CASE tok = <<"4", "2">> -> 42
      [] tok = <<"7">>      -> 7
      [] tok = <<"-", "5">> -> 0 - 5
      [] OTHER              -> 0

\* the value of the longest prefix of a token that is an optional '-' and
\* digits, else 0
LeadingIntegerValue(tok) ==
    CASE tok = <<"4", "2">> -> 42
      [] tok = <<"7">>      -> 7
      [] tok = <<"7", "x">> -> 7
      [] tok = <<"-", "5">> -> 0 - 5
      [] OTHER              -> 0

(***************************************************************************)
(* C5, as stated: a flag is recognised if and only if some token equals    *)
(* the flag string exactly, case-sensitively; a token that differs from a  *)
(* flag only in letter case has no effect on any resolved value.           *)
(***************************************************************************)
C5_ExactCaseSensitiveMatch ==
    Resolved =>
        /\ continueRunning = ~HasTokenExactly(QuitAfterTests)
        /\ logPasses = HasTokenExactly(LogPasses)
        /\ runTests = (IF JUCE_DEBUG # 0 THEN ~HasTokenExactly(DisableTests)
                                         ELSE HasTokenExactly(EnableTests))
        /\ assertOnFail = (IF JUCE_DEBUG # 0 THEN ~HasTokenExactly(ContinueOnFail)
                                             ELSE HasTokenExactly(AssertOnFail))
        /\ (~HasTokenExactly(RandomSeed) => randomSeed = 0)

(***************************************************************************)
(* C5, amended: a flag is recognised if and only if some token equals the  *)
(* flag string ignoring letter case, at any position among the tokens, and *)
(* permuting the tokens does not change the resolved booleans.             *)
(***************************************************************************)
C5_CaseInsensitiveMatch ==
    Resolved =>
        /\ continueRunning = ~HasTokenIgnoringCase(QuitAfterTests)
        /\ logPasses = HasTokenIgnoringCase(LogPasses)
        /\ runTests = (IF JUCE_DEBUG # 0 THEN ~HasTokenIgnoringCase(DisableTests)
                                         ELSE HasTokenIgnoringCase(EnableTests))
        /\ assertOnFail = (IF JUCE_DEBUG # 0 THEN ~HasTokenIgnoringCase(ContinueOnFail)
                                             ELSE HasTokenIgnoringCase(AssertOnFail))
        /\ (~HasTokenIgnoringCase(RandomSeed) => randomSeed = 0)
        /\ \A p \in Permutations(DOMAIN commands) :
               BooleansOf(Permute(commands, p)) = ResolvedBooleans

\* an upper-case --LOGPASSES, after another token, has switched logPasses on
C5_Witness ==
    /\ Resolved
    /\ Len(commands) = 2
    /\ commands[2] = ToUpper(LogPasses)
    /\ commands[1] = EnableTests
    /\ logPasses = TRUE

(***************************************************************************)
(* C6, as stated: with the capability enabled runAllTests returns false if *)
(* and only if the --quitAfterTests token, so spelled, is present.         *)
(***************************************************************************)
C6_ReturnsFalseIffExactQuitToken ==
    (RunUnitTestsEnabled /\ rpc = "returned") =>
        returned = ~HasTokenExactly(QuitAfterTests)

(***************************************************************************)
(* C6, amended: with the capability enabled runAllTests returns false if   *)
(* and only if some token equals --quitAfterTests ignoring letter case;    *)
(* nothing else (build mode, other flags, whether the tests ran) matters.  *)
(***************************************************************************)
C6_ReturnsFalseIffQuitToken ==
    (RunUnitTestsEnabled /\ rpc = "returned") =>
        returned = ~HasTokenIgnoringCase(QuitAfterTests)

\* false was returned after the runner ran, in a debug build
C6_Witness ==
    /\ RunUnitTestsEnabled
    /\ rpc = "returned"
    /\ returned = FALSE
    /\ JUCE_DEBUG = 1
    /\ testRunner # NoRunner
    /\ HasTokenExactly(QuitAfterTests)

(***************************************************************************)
(* C7, as stated: debug: runTests = (--disableTests absent), assertOnFail  *)
(* = (--continueOnFail absent); release: runTests = (--enableTests         *)
(* present), assertOnFail = (--assertOnFail present); the flags spelled    *)
(* exactly.                                                                *)
(***************************************************************************)
C7_PolicyByExactFlags ==
    Resolved =>
        IF JUCE_DEBUG # 0
        THEN /\ runTests = ~HasTokenExactly(DisableTests)
             /\ assertOnFail = ~HasTokenExactly(ContinueOnFail)
        ELSE /\ runTests = HasTokenExactly(EnableTests)
             /\ assertOnFail = HasTokenExactly(AssertOnFail)

(***************************************************************************)
(* C7, amended: the same policy with a flag present when some token equals *)
(* it ignoring letter case.  Each build mode reads only its own two flags. *)
(***************************************************************************)
C7_PolicyByFlags ==
    Resolved =>
        IF JUCE_DEBUG # 0
        THEN /\ runTests = ~HasTokenIgnoringCase(DisableTests)
             /\ assertOnFail = ~HasTokenIgnoringCase(ContinueOnFail)
        ELSE /\ runTests = HasTokenIgnoringCase(EnableTests)
             /\ assertOnFail = HasTokenIgnoringCase(AssertOnFail)

\* a release build given the two debug flags: no tests, no assert
C7_Witness ==
    /\ Resolved
    /\ JUCE_DEBUG = 0
    /\ HasTokenExactly(DisableTests)
    /\ HasTokenExactly(ContinueOnFail)
    /\ runTests = FALSE
    /\ assertOnFail = FALSE

(***************************************************************************)
(* C8, as stated: the seed is 0 without a --randomTestSeed token;          *)
(* otherwise it is the integer value of the token after the first          *)
(* --randomTestSeed, and 0 when that token is missing or is not an         *)
(* integer; the other flags are resolved as usual.                         *)
(***************************************************************************)
IsSeedFlagExactly(tok) == tok = RandomSeed
IsSeedFlagIgnoringCase(tok) == ToUpper(tok) = ToUpper(RandomSeed)

C9_CompiledOutIsNoOp ==
    RUN_UNIT_TESTS = 0 =>
        /\ testRunner = NoRunner
        /\ rpc \in {"entry", "returned"}
        /\ rpc = "returned" => returned = TRUE

\* true was returned although --quitAfterTests is on the command line
C9_Witness ==
    /\ RUN_UNIT_TESTS = 0
    /\ rpc = "returned"
    /\ returned = TRUE
    /\ HasTokenExactly(QuitAfterTests)

(***************************************************************************)
(* C10: the runner is run exactly once if runTests resolved true and is    *)
(* never constructed, configured or run otherwise; when it runs it has     *)
(* been configured with assertOnFail and logPasses and is given            *)
(* randomSeed; runAllTests returns only after the run has finished.        *)
(***************************************************************************)
C10_RunnerRunOnceAsResolved ==
    Resolved =>
        /\ runTests = FALSE => testRunner = NoRunner
        /\ testRunner # NoRunner =>
              /\ testRunner.runs <= 1
              /\ testRunner.state \in {"running", "finished"} =>
                    /\ testRunner.runs = 1
                    /\ testRunner.assertOnFailure = assertOnFail
                    /\ testRunner.logPasses = logPasses
                    /\ testRunner.seed = randomSeed
        /\ (rpc = "returned" /\ runTests = TRUE) =>
              /\ testRunner # NoRunner
              /\ testRunner.state = "finished"
              /\ testRunner.runs = 1
              /\ testRunner.suitesRun = NumSuites

\* a run that was told not to assert, to log passes, and given seed 42
C10_Witness ==
    /\ rpc = "returned"
    /\ testRunner # NoRunner
    /\ testRunner.state = "finished"
    /\ testRunner.assertOnFailure = FALSE
    /\ testRunner.logPasses = TRUE
    /\ testRunner.seed = 42

(***************************************************************************)
(* Vocabulary of the properties of the suite.                              *)
(***************************************************************************)
\* the test() call that `call` describes has ended, by return or by unwinding
TestEnded == call.op = "test" /\ pc \in {"idle", "unwound"}

\* the beginTest and invocation events of a stretch of the history
RECURSIVE CallsIn(_)
CallsIn(evs) ==
    IF evs = <<>> THEN <<>>
    ELSE IF Head(evs)[1] \in {"beginTest", "invoke"}
         THEN <<Head(evs)>> \o CallsIn(Tail(evs))
         ELSE CallsIn(Tail(evs))

\* what the last test()/skipTest() call has done so far
EventsOfCall == SubSeq(events, call.at + 1, Len(events))

\* the handle that the setup()/tearDown() calls before position i left in
\* place: the argument of the last one, or the default
InstalledBefore(kind, i) ==
    LET S == {j \in 1..(i - 1) : events[j][1] = kind}
    IN  IF S = {} THEN noOp
        ELSE events[CHOOSE j \in S : \A k \in S : k <= j][2]

\* the position of the beginTest of the test() call that event i belongs to
StartOf(i) ==
    CHOOSE j \in 1..(i - 1) :
        /\ events[j][1] = "beginTest"
        /\ \A k \in (j + 1)..(i - 1) : events[k][1] # "beginTest"

HookInvocations ==
    {i \in DOMAIN events :
        events[i][1] = "invoke" /\ events[i][2] \in {"onSetup", "onTearDown"}}

KindOf(role) == IF role = "onSetup" THEN "setup" ELSE "tearDown"

(***************************************************************************)
(* C1: every call test(name, fn), whatever the hooks are and whatever fn   *)
(* does, records beginTest and then invokes the setup hook, fn and the     *)
(* teardown hook, each exactly once and in that order.                     *)
(***************************************************************************)
C1_SetupFnTearDownOnceInOrder ==
    TestEnded =>
        \E s \in Functions, t \in Functions :
            CallsIn(EventsOfCall) =
                << <<"beginTest", call.name>>,
                   <<"invoke", "onSetup", s>>,
                   <<"invoke", "testFn", call.fn>>,
                   <<"invoke", "onTearDown", t>> >>

(***************************************************************************)
(* C2: after any sequence of setup/tearDown/test/skipTest calls, with any  *)
(* argument setup(fn) and tearDown(fn) accept, both hooks are callable.    *)
(***************************************************************************)
C2_HooksAlwaysCallable == onSetup # Empty /\ onTearDown # Empty

(***************************************************************************)
(* C3, as stated: a test() call runs the hooks that were active when it    *)
(* started; a setup(g)/tearDown(g) made while it runs, from a hook or from *)
(* the subtest body, changes only later test() calls.                      *)
(***************************************************************************)
C3_HooksFixedAtTestStart ==
    \A i \in HookInvocations :
        events[i][3] = InstalledBefore(KindOf(events[i][2]), StartOf(i))

(***************************************************************************)
(* C3, amended: each hook invocation runs the handle given to the last     *)
(* setup()/tearDown() call made before that invocation (the default if     *)
(* none): a replacement never changes what an invocation already made has  *)
(* run, stays in effect until the next replacement, and, when made inside  *)
(* a running test() before its teardown is invoked, is already used by     *)
(* that test()'s teardown.                                                 *)
(***************************************************************************)
C3_HooksReadWhenInvoked ==
    \A i \in HookInvocations :
        events[i][3] = InstalledBefore(KindOf(events[i][2]), i)

\* a subtest body replaced the teardown, and the same test() ran the new one
C3_Witness ==
    /\ call.op = "test"
    /\ pc = "idle"
    /\ call.fn = "setsTearDown"
    /\ call.tearDown0 = noOp
    /\ events[Len(events)] = <<"invoke", "onTearDown", "g">>

(***************************************************************************)
(* C4: skipTest(name, fn) invokes neither fn nor a hook, records no        *)
(* subtest start, leaves the hooks as they are, and emits exactly two log  *)
(* lines: the separator, then the warning naming the suite and the         *)
(* subtest.                                                                *)
(***************************************************************************)
C4_SkipTestOnlyLogsTwoLines ==
    [][(nCalls' = nCalls + 1 /\ call'.op = "skipTest") =>
          /\ events' = events \o
                << <<"logMessage", Separator>>,
                   <<"logMessage",
                     <<"WARNING: Skipping ", suiteName, " / ", call'.name>>>> >>
          /\ onSetup' = onSetup
          /\ onTearDown' = onTearDown
          /\ pc' = pc]_vars

\* a subtest whose body would throw was skipped while user hooks were set
C4_Witness ==
    /\ call.op = "skipTest"
    /\ call.fn = "thrower"
    /\ call.name = "t2"
    /\ onSetup = "g"
    /\ Len(events) >= 2
    /\ events[Len(events)][1] = "logMessage"
    /\ events[Len(events) - 1] = <<"logMessage", Separator>>
====
